---- MODULE Spec2Model ----
(***************************************************************************)
(* Model of src/server.js: the POST /api/wallet handler, the process-wide  *)
(* token registry it reads, and the signing credential that selects the    *)
(* unsigned or the backend-signed branch.  The ledger RPC, the registry     *)
(* provider and the messaging channel are the environment: every awaited    *)
(* call returns one of the results it can produce, or fails.                *)
(***************************************************************************)
EXTENDS Integers, Sequences, FiniteSets, TLC

\* ---------------------------------------------------------------- bounds
MaxAccounts == 2      \* token accounts getTokenAccountsByOwner may return
MaxBalance  == 4      \* largest native balance (lamports) getBalance returns
MaxFee      == 1      \* largest lamportsPerSignature the fee query returns

\* ---------------------------------------------------- program constants
FeeSignatures   == 3  \* feeCalculator.lamportsPerSignature * 3
DefaultDecimals == 9  \* decimals fallback
Unset == -1           \* a const of the handler that is not yet initialised

Mints  == {"m1", "m2"}
\* raw amounts the first read of a token account returns, and those the
\* build loop's second read returns: the account was emptied meanwhile, or
\* holds another positive amount (the code never compares the two reads, so
\* an unchanged amount takes the same path as a changed positive one)
FirstAmounts  == {0, 1}
SecondAmounts == {0, 2}
\* what sendRawTransaction returns: the transaction's first signature
Txids  == {"tx1"}
\* walletAddress of the request body: absent (falsy), not a valid key, the
\* backend signer's own public key (when there is a signer), or any other
\* valid key
Wallets(s) ==
  {"absent", "malformed", "userKey"} \cup (IF s THEN {"signerKey"} ELSE {})
Recipient == "recipientKey"
Memo      == "Signed via your app"

\* decimals values a registry entry or an on-chain mint can carry
DecimalsValues == {0, 6}
\* decimals of `undefined` (tokenInfo?.decimals with no tokenInfo)
UndefDecimals == -1
Undefined == "undefined"

\* tokenList.find(...) found nothing: every tokenInfo?.x is undefined
NoInfo == [decimals |-> UndefDecimals, symbol |-> Undefined,
           name |-> Undefined, logoURI |-> Undefined]
Entry(m, d) == [decimals |-> d, symbol |-> "SYM", name |-> "Registry name",
                logoURI |-> "logo"]
EmptyList == [m \in Mints |-> NoInfo]
\* the lists the registry provider can resolve to: m1 listed, m2 not
Registries ==
  { [m \in Mints |-> IF m = "m1" THEN Entry(m, d) ELSE NoInfo] :
      d \in DecimalsValues }

\* `Token (${mintAddress.slice(0, 4)}...)`
DefaultName(m) == IF m = "m1" THEN "Token (m1...)" ELSE "Token (m2...)"

\* JavaScript falsiness of a number-or-undefined and of a string-or-undefined
FalsyNum(d) == d = UndefDecimals \/ d = 0
FalsyStr(s) == s = Undefined \/ s = ""

Null == [null |-> TRUE]

VARIABLES
  signer,            \* TRUE iff PRIVATE_KEY yields a Keypair (fixed at start)
  tokenList,         \* the registry: mint -> entry (NoInfo when not listed)
  registryWrites,    \* number of assignments to tokenList after its initial []
  walletAddress,     \* req.body.walletAddress of the current request
  pc,                \* position of the handler (the await it is suspended at)
  balance,           \* lamports returned by getBalance
  acct,              \* per discovered token account: stage, first read, tokenInfo
  splBalances,       \* Promise.all result: per account, Null or a holding
  validSplBalances,  \* splBalances without the Nulls
  TRANSACTION_FEE,   \* lamportsPerSignature * 3
  amount,            \* balance - TRANSACTION_FEE
  idx,               \* index in validSplBalances the build loop is at
  tokenAccount,      \* the build loop's tokenAccount: its latest second read
  instructions,      \* transaction.instructions
  built,             \* TRUE once `new Transaction` ran for the request
  feePayer,          \* transaction.feePayer
  signatures,        \* public keys that signed the transaction
  txid,              \* what sendRawTransaction returned
  confirmResult,     \* what confirmTransaction resolved to
  calls,             \* the external calls of the request, in order
  response,          \* the response sent for the request
  nResponses,        \* number of responses sent for the request
  caught             \* the call whose exception a catch of the handler caught

procVars == <<signer, tokenList, registryWrites>>
aggVars  == <<acct, splBalances, validSplBalances>>
feeVars  == <<TRANSACTION_FEE, amount>>
planVars == <<idx, tokenAccount, instructions, built, feePayer, signatures>>
sendVars == <<txid, confirmResult>>
respVars == <<response, nResponses, caught>>
vars == <<signer, tokenList, registryWrites, walletAddress,
          pc, balance, acct, splBalances, validSplBalances, TRANSACTION_FEE,
          amount, idx, tokenAccount, instructions, built, feePayer, signatures, txid,
          confirmResult, calls, response, nResponses, caught>>

\* ------------------------------------------------------------- responses
NoResponse ==
  [status |-> 0, success |-> FALSE, error |-> "absent", details |-> "absent",
   snapshot |-> FALSE, transaction |-> "absent", txid |-> "absent",
   message |-> "absent"]
\* res.status(400).json({ error: 'Wallet address is required' })
BadRequest ==
  [NoResponse EXCEPT !.status = 400, !.error = "Wallet address is required"]
\* mutant: the catch-all exposes the error's message
GenericFailure_WithDetails ==
  [NoResponse EXCEPT !.status = 500,
                     !.error = "Failed to process wallet address",
                     !.details = "error.message"]
\* res.status(500).json({ error: 'Failed to process wallet address' })
GenericFailure ==
  [NoResponse EXCEPT !.status = 500,
                     !.error = "Failed to process wallet address"]
\* res.status(500).json({ error: 'Transaction failed', details: err.message })
TransactionFailed(detail) ==
  [NoResponse EXCEPT !.status = 500, !.error = "Transaction failed",
                     !.details = detail]
\* res.json({ success, balance, splBalances, transaction: null, message })
Insufficient ==
  [NoResponse EXCEPT !.status = 200, !.success = TRUE, !.snapshot = TRUE,
                     !.transaction = "null",
                     !.message = "Insufficient SOL balance for transaction"]
\* res.json({ success, balance, splBalances, txid, message })
BackendSigned(id) ==
  [NoResponse EXCEPT !.status = 200, !.success = TRUE, !.snapshot = TRUE,
                     !.txid = id,
                     !.message = "Transaction sent successfully (backend-signed)"]
\* res.json({ success, balance, splBalances, transaction: serialized })
Unsigned ==
  [NoResponse EXCEPT !.status = 200, !.success = TRUE, !.snapshot = TRUE,
                     !.transaction = "serialized"]

Call(op, arg) == [op |-> op, arg |-> arg]
Called(op) == \E i \in 1..Len(calls) : calls[i].op = op
CountCalls(op) == Cardinality({i \in 1..Len(calls) : calls[i].op = op})

\* mutant: the handler does not return after res.json and answers a second
\* time
Respond_Twice(r) ==
  /\ response' = r
  /\ nResponses' = nResponses + 2
  /\ pc' = "done"
  /\ UNCHANGED caught
\* res.json(r) / res.status(..).json(r), and the handler returns
Respond(r) ==
  /\ response' = r
  /\ nResponses' = nResponses + 1
  /\ pc' = "done"
  /\ UNCHANGED caught

\* `op` threw and a catch block of the handler answered with r
Fail(op, r) ==
  /\ response' = r
  /\ nResponses' = nResponses + 1
  /\ pc' = "done"
  /\ caught' = op

\* --------------------------------------------------------------- initial
FreshAcct == <<>>

Init ==
  /\ signer \in BOOLEAN
  /\ tokenList = EmptyList
  /\ registryWrites = 0
  /\ walletAddress = "absent"
  /\ pc = "idle"
  /\ balance = 0
  /\ acct = FreshAcct
  /\ splBalances = <<>>
  /\ validSplBalances = <<>>
  /\ TRANSACTION_FEE = Unset
  /\ amount = 0
  /\ idx = 1
  /\ tokenAccount = [ok |-> FALSE, amount |-> 0]
  /\ instructions = <<>>
  /\ built = FALSE
  /\ feePayer = "none"
  /\ signatures = {}
  /\ txid = "none"
  /\ confirmResult = "none"
  /\ calls = <<>>
  /\ response = NoResponse
  /\ nResponses = 0
  /\ caught = "none"

\* ------------------------------------------------------- registry loader
\* mutant: the list is loaded again while the server runs
LoadTokenList_Repeated ==
  /\ registryWrites < 2
  /\ \E list \in Registries : tokenList' = list
  /\ registryWrites' = registryWrites + 1
  /\ UNCHANGED <<signer, walletAddress, pc, balance, aggVars,
                 feeVars, planVars, sendVars, calls, respVars>>
\* the async function of lines 36-39 runs once, at start-up:
\* tokenList = tokens.filterByClusterSlug('mainnet-beta').getList()
LoadTokenList ==
  /\ registryWrites = 0
  /\ \E list \in Registries : tokenList' = list
  /\ registryWrites' = registryWrites + 1
  /\ UNCHANGED <<signer, walletAddress, pc, balance, aggVars,
                 feeVars, planVars, sendVars, calls, respVars>>

\* ---------------------------------------------------------- the handler
\* const { walletAddress } = req.body; the 400 check; new PublicKey(...);
\* connection.getBalance(publicKey) is issued
Receive ==
  /\ pc = "idle"
  /\ \E w \in Wallets(signer) :
       /\ walletAddress' = w
       /\ IF w = "absent"
            THEN Respond(BadRequest) /\ UNCHANGED calls
            ELSE IF w = "malformed"
              THEN Fail("PublicKey", GenericFailure) /\ UNCHANGED calls
              ELSE /\ pc' = "getBalance"
                   /\ calls' = Append(calls, Call("getBalance", "-"))
                   /\ UNCHANGED respVars
  /\ UNCHANGED <<procVars, balance, aggVars, feeVars, planVars, sendVars>>

\* const balance = await connection.getBalance(publicKey);
\* connection.getTokenAccountsByOwner(publicKey, ...) is issued
GetBalanceReturn ==
  /\ pc = "getBalance"
  /\ \/ \E b \in 0..MaxBalance :
          /\ balance' = b
          /\ pc' = "getTokenAccounts"
          /\ calls' = Append(calls, Call("getTokenAccountsByOwner", "-"))
          /\ UNCHANGED respVars
     \/ /\ Fail("getBalance", GenericFailure)
        /\ UNCHANGED <<balance, calls>>
  /\ UNCHANGED <<procVars, walletAddress, aggVars, feeVars, planVars, sendVars>>

\* splBalances.filter(balance => balance !== null)
FilterNull(s) == SelectSeq(s, LAMBDA b : b # Null)

\* the object returned at lines 84-91; balance = Number(amount) / 10^decimals
\* is kept as the pair (numerator, power of ten)
Holding(m, a, d, sym, nm, info) ==
  [mint |-> m, balance |-> [num |-> a, exp |-> d], decimals |-> d,
   symbol |-> sym, name |-> nm,
   logoURI |-> IF FalsyStr(info.logoURI) THEN "" ELSE info.logoURI]

\* if (!decimals || !symbol || !name)
NeedsMintQuery(info) ==
  FalsyNum(info.decimals) \/ FalsyStr(info.symbol) \/ FalsyStr(info.name)

\* mintInfo.value?.data.parsed.info.decimals || 9 ; d = UndefDecimals when
\* mintInfo.value is null
MintDecimals(d) == IF FalsyNum(d) THEN DefaultDecimals ELSE d
\* symbol || 'TOKEN'
SymbolOr(sym) == IF FalsyStr(sym) THEN "TOKEN" ELSE sym
\* name || `Token (...)`
NameOr(nm, m) == IF FalsyStr(nm) THEN DefaultName(m) ELSE nm

PendingAcct ==
  [stage |-> "getAccount", ok |-> FALSE, mint |-> "none", amount |-> 0,
   info |-> NoInfo]
\* mutant: the aggregation goes on as soon as one resolution has settled
AllDone_Any(a) == \E i \in 1..Len(a) : a[i].stage = "done"
\* await Promise.all(...): every branch has settled
AllDone(a) == \A i \in 1..Len(a) : a[i].stage = "done"
GetAccountCalls(n) == [i \in 1..n |-> Call("getAccount", "-")]

\* Promise.all resolved: validSplBalances is filtered, the message is
\* formatted and bot.sendMessage(...) is issued
Aggregated(results, cs) ==
  /\ splBalances' = results
  /\ validSplBalances' = FilterNull(results)
  /\ pc' = "sendMessage"
  /\ calls' = Append(cs, Call("sendMessage", "-"))

\* mutant: a result is stored at the next free position, in the order the
\* branches settle
Settle_CompletionOrder(i, result, a, cs) ==
  LET k == Cardinality({j \in 1..Len(a) : a[j].stage = "done"})
  IN  /\ acct' = a
      /\ IF AllDone(a)
           THEN Aggregated([splBalances EXCEPT ![k] = result], cs)
           ELSE /\ splBalances' = [splBalances EXCEPT ![k] = result]
                /\ calls' = cs
                /\ UNCHANGED <<validSplBalances, pc>>
\* one branch of the Promise.all settled with `result`: Promise.all keeps
\* the result at the position of its input, whatever the order of settling
Settle(i, result, a, cs) ==
  /\ acct' = a
  /\ IF AllDone(a)
       THEN Aggregated([splBalances EXCEPT ![i] = result], cs)
       ELSE /\ splBalances' = [splBalances EXCEPT ![i] = result]
            /\ calls' = cs
            /\ UNCHANGED <<validSplBalances, pc>>

\* const tokenAccounts = await connection.getTokenAccountsByOwner(...);
\* tokenAccounts.value.map(async account => ...) runs each callback up to its
\* getAccount(connection, account.pubkey)
GetTokenAccountsReturn ==
  /\ pc = "getTokenAccounts"
  /\ \/ \E n \in 0..MaxAccounts :
          /\ acct' = [i \in 1..n |-> PendingAcct]
          /\ IF n = 0
               THEN Aggregated(<<>>, calls)
               ELSE /\ splBalances' = [i \in 1..n |-> Null]
                    /\ pc' = "aggregate"
                    /\ calls' = calls \o GetAccountCalls(n)
                    /\ UNCHANGED validSplBalances
          /\ UNCHANGED respVars
     \/ /\ Fail("getTokenAccountsByOwner", GenericFailure)
        /\ UNCHANGED <<aggVars, calls>>
  /\ UNCHANGED <<procVars, walletAddress, balance, feeVars, planVars, sendVars>>

\* mutant: accounts with amount 0 are kept
Positive_OrZero(a) == a >= 0
\* tokenAccount.amount > 0
Positive(a) == a > 0

\* mutant: no per-account catch, the failure reaches the outer catch
AccountFailed_Abort(i) ==
  /\ Fail("getAccount", [NoResponse EXCEPT !.status = 500,
                            !.error = "Failed to process wallet address"])
  /\ UNCHANGED <<aggVars, calls>>
\* getAccount threw: catch (e) { console.error(...) }; return null
AccountFailed(i) ==
  /\ Settle(i, Null, [acct EXCEPT ![i].stage = "done"], calls)
  /\ UNCHANGED respVars

\* const tokenAccount = await getAccount(connection, account.pubkey), for the
\* account at index i, up to the callback's next await or its return
AccountRead(i) ==
  /\ pc = "aggregate"
  /\ i \in 1..Len(acct)
  /\ acct[i].stage = "getAccount"
  /\ \/ AccountFailed(i)
     \/ /\ \E m \in Mints, a \in FirstAmounts :
             LET info == tokenList[m]
                 rd == [acct[i] EXCEPT !.ok = TRUE, !.mint = m, !.amount = a,
                                       !.info = info]
                 done == [acct EXCEPT ![i] = [rd EXCEPT !.stage = "done"]]
             IN  IF ~Positive(a)
                   THEN Settle(i, Null, done, calls)
                   ELSE IF NeedsMintQuery(info)
                     THEN /\ acct' = [acct EXCEPT
                                        ![i] = [rd EXCEPT !.stage = "getMint"]]
                          /\ calls' = Append(calls,
                                             Call("getParsedAccountInfo", "-"))
                          /\ UNCHANGED <<splBalances, validSplBalances, pc>>
                     ELSE Settle(i, Holding(m, a, info.decimals, info.symbol,
                                            info.name, info), done, calls)
        /\ UNCHANGED respVars
  /\ UNCHANGED <<procVars, walletAddress, balance, feeVars, planVars, sendVars>>

\* const mintInfo = await connection.getParsedAccountInfo(...), for the
\* account at index i, then the return of the holding
MintInfoReturn(i) ==
  /\ pc = "aggregate"
  /\ i \in 1..Len(acct)
  /\ acct[i].stage = "getMint"
  /\ LET r == acct[i]
         done == [acct EXCEPT ![i].stage = "done"]
     IN  \/ \* the query threw, or the account data is not parsed: catch (e)
            Settle(i, Holding(r.mint, r.amount, DefaultDecimals, "TOKEN",
                              DefaultName(r.mint), r.info), done, calls)
         \/ \E d \in DecimalsValues \cup {UndefDecimals} :
              Settle(i, Holding(r.mint, r.amount, MintDecimals(d),
                                SymbolOr(r.info.symbol),
                                NameOr(r.info.name, r.mint), r.info),
                     done, calls)
  /\ UNCHANGED <<procVars, walletAddress, balance, feeVars, planVars, sendVars,
                 respVars>>

\* mutant: a failing push is swallowed and the pipeline goes on to the fee
\* query
NotificationFailed_Isolated ==
  /\ pc' = "getRecentBlockhash"
  /\ calls' = Append(calls, Call("getRecentBlockhash", "-"))
  /\ caught' = "sendMessage"
  /\ UNCHANGED <<response, nResponses>>
\* await bot.sendMessage(...) rejects: nothing guards it, so the outer catch
\* answers with the generic failure
NotificationFailed ==
  /\ Fail("sendMessage", GenericFailure)
  /\ UNCHANGED calls

\* await bot.sendMessage(...); connection.getRecentBlockhash() is issued
SendMessageReturn ==
  /\ pc = "sendMessage"
  /\ \/ /\ pc' = "getRecentBlockhash"
        /\ calls' = Append(calls, Call("getRecentBlockhash", "-"))
        /\ UNCHANGED respVars
     \/ NotificationFailed
  /\ UNCHANGED <<procVars, walletAddress, balance, aggVars, feeVars, planVars,
                 sendVars>>

\* feeCalculator.lamportsPerSignature * 3
ReservedFee(f) == f * FeeSignatures
\* mutant: the fee check lets a balance equal to the reserved fee through
InsufficientBalance_Strict(b, tf) == b < tf
\* if (balance <= TRANSACTION_FEE)
InsufficientBalance(b, tf) == b <= tf
\* mutant: the whole balance is swept, the fee is not reserved
SweepAmount_Full(b, tf) == b
\* const amount = balance - TRANSACTION_FEE
SweepAmount(b, tf) == b - tf

\* const { feeCalculator } = await connection.getRecentBlockhash(); the fee
\* check; connection.getLatestBlockhash() is issued
FeeReturn ==
  /\ pc = "getRecentBlockhash"
  /\ \/ \E f \in 0..MaxFee :
          /\ TRANSACTION_FEE' = ReservedFee(f)
          /\ IF InsufficientBalance(balance, ReservedFee(f))
               THEN /\ Respond(Insufficient)
                    /\ UNCHANGED <<amount, calls>>
               ELSE /\ amount' = SweepAmount(balance, ReservedFee(f))
                    /\ pc' = "getLatestBlockhash"
                    /\ calls' = Append(calls, Call("getLatestBlockhash", "-"))
                    /\ UNCHANGED respVars
     \/ /\ Fail("getRecentBlockhash", GenericFailure)
        /\ UNCHANGED <<feeVars, calls>>
  /\ UNCHANGED <<procVars, walletAddress, balance, aggVars, planVars, sendVars>>

\* getAssociatedTokenAddress(mint, owner)
ATA(m, owner) == [mint |-> m, owner |-> owner]
\* createTransferInstruction(sourceATA, destinationATA, payer, amount)
TokenTransfer(m, payer, a) ==
  [type |-> "token", source |-> ATA(m, payer), dest |-> ATA(m, Recipient),
   signerKey |-> payer, amount |-> a, data |-> ""]
\* SystemProgram.transfer({ fromPubkey: payer, toPubkey: recipient, lamports })
NativeTransfer(payer, lamports) ==
  [type |-> "native", source |-> ATA("SOL", payer),
   dest |-> ATA("SOL", Recipient), signerKey |-> payer, amount |-> lamports,
   data |-> ""]
\* createMemoInstruction(memo)
MemoInstruction ==
  [type |-> "memo", source |-> ATA("none", "none"), dest |-> ATA("none", "none"),
   signerKey |-> "none", amount |-> 0, data |-> Memo]

\* feePayer: signer?.publicKey || payer
FeePayer(s, payer) == IF s THEN "signerKey" ELSE payer

\* the keys whose signature the compiled message requires: the fee payer and
\* every instruction's signer account
RequiredSigners(fp, ins) ==
  {fp} \cup {ins[i].signerKey : i \in {j \in 1..Len(ins) : ins[j].type # "memo"}}

\* transaction.serialize() with requireAllSignatures: no required signature
\* is missing
FullySigned(fp, ins, sigs) == RequiredSigners(fp, ins) \subseteq sigs

\* mutant: the memo is added before the native transfer
ClosePlan_MemoFirst(ins, payer, lamports) ==
  ins \o <<MemoInstruction, NativeTransfer(payer, lamports)>>
\* the two transaction.add(...) after the loop
ClosePlan(ins, payer, lamports) ==
  ins \o <<NativeTransfer(payer, lamports), MemoInstruction>>

\* mutant: the backend-signed branch is never taken
BackendSigns_Never(s) == FALSE
\* if (signer)
BackendSigns(s) == s

\* lines 166-203: the plan is closed, then signed with the backend key and
\* serialized for sendRawTransaction, or serialized unsigned and returned
FinishPlan(ins, cs, fp) ==
  LET plan == ClosePlan(ins, walletAddress, amount)
  IN  /\ instructions' = plan
      /\ IF BackendSigns(signer)
           THEN /\ signatures' = {"signerKey"}
                /\ IF FullySigned(fp, plan, {"signerKey"})
                     THEN /\ pc' = "submit"
                          /\ calls' = cs \o <<Call("sign", "-"),
                                              Call("sendRawTransaction", "-")>>
                          /\ UNCHANGED respVars
                     ELSE \* transaction.serialize() throws inside the inner try
                          /\ Fail("serialize",
                                  TransactionFailed("Signature verification failed"))
                          /\ calls' = Append(cs, Call("sign", "-"))
           ELSE /\ Respond(Unsigned)
                /\ calls' = cs
                /\ UNCHANGED signatures

\* const { blockhash } = await connection.getLatestBlockhash();
\* new Transaction(...); the loop's first getAccount(connection, sourceATA) is
\* issued, or with no holdings the plan is finished at once
BlockhashReturn ==
  /\ pc = "getLatestBlockhash"
  /\ \/ /\ built' = TRUE
        /\ feePayer' = FeePayer(signer, walletAddress)
        /\ IF Len(validSplBalances) = 0
             THEN FinishPlan(<<>>, calls, FeePayer(signer, walletAddress))
             ELSE /\ pc' = "build"
                  /\ calls' = Append(calls, Call("getAccount", "-"))
                  /\ UNCHANGED <<instructions, signatures, respVars>>
        /\ UNCHANGED <<idx, tokenAccount>>
     \/ /\ Fail("getLatestBlockhash", GenericFailure)
        /\ UNCHANGED <<planVars, calls>>
  /\ UNCHANGED <<procVars, walletAddress, balance, aggVars, feeVars, sendVars>>

\* what an iteration of the build loop got: a throw inside its try (the
\* address derivation or the second read failed), or the amount read
Read2(ok, a) == [ok |-> ok, amount |-> a]

\* the loop goes on to the next holding (its getAccount(connection, sourceATA)
\* is issued), or the loop is over and the plan is finished
NextIteration(ins) ==
  IF idx < Len(validSplBalances)
    THEN /\ instructions' = ins
         /\ calls' = Append(calls, Call("getAccount", "-"))
         /\ UNCHANGED <<pc, signatures, respVars>>
    ELSE FinishPlan(ins, calls, feePayer)

\* mutant: a throw inside the loop is not caught by the loop and ends the
\* request
IterationFailed_Abort ==
  /\ Fail("getAccount", GenericFailure)
  /\ UNCHANGED <<instructions, signatures, calls>>
\* catch (error) { console.error(...) } of the loop body: the holding is
\* skipped
IterationFailed == NextIteration(instructions)

\* mutant: the transfer carries the amount of the snapshot
TransferAmount_Snapshot(r, h) == h.balance.num
\* BigInt(tokenAccount.amount)
TransferAmount(r, h) == r.amount

\* if (tokenAccount.amount > 0) transaction.add(createTransferInstruction(...))
IterationRead(r) ==
  LET h == validSplBalances[idx]
  IN  NextIteration(IF Positive(r.amount)
                      THEN Append(instructions,
                                  TokenTransfer(h.mint, walletAddress,
                                                TransferAmount(r, h)))
                      ELSE instructions)

\* one iteration of for (const tokenData of validSplBalances) for the
\* holding at idx
BuildRead ==
  /\ pc = "build"
  /\ \E r \in {Read2(FALSE, 0)} \cup {Read2(TRUE, a) : a \in SecondAmounts} :
       /\ tokenAccount' = r
       /\ idx' = idx + 1
       /\ IF r.ok THEN IterationRead(r) ELSE IterationFailed
  /\ UNCHANGED <<procVars, walletAddress, balance, aggVars, feeVars, built,
                 feePayer, sendVars>>

\* mutant: the confirmation query is not given the submitted txid
ConfirmCall_NoTxid(t) == Call("confirmTransaction", "-")
\* connection.confirmTransaction(txid, 'confirmed')
ConfirmCall(t) == Call("confirmTransaction", t)

\* const txid = await connection.sendRawTransaction(...);
\* connection.confirmTransaction(txid, 'confirmed') is issued
SubmitReturn ==
  /\ pc = "submit"
  /\ \/ \E t \in Txids :
          /\ txid' = t
          /\ pc' = "confirm"
          /\ calls' = Append(calls, ConfirmCall(t))
          /\ UNCHANGED respVars
     \/ /\ Fail("sendRawTransaction", TransactionFailed("send failed"))
        /\ UNCHANGED <<txid, calls>>
  /\ UNCHANGED <<procVars, walletAddress, balance, aggVars, feeVars, planVars,
                 confirmResult>>

\* the ways connection.confirmTransaction settles: resolved with value.err
\* null, resolved with value.err set (the transaction failed on the ledger),
\* or rejected (expiry, timeout, RPC failure)
ConfirmOutcomes == {"confirmed", "err", "rejected"}
\* await connection.confirmTransaction(txid, 'confirmed') throws
ConfirmThrows(o) == o = "rejected"

\* await connection.confirmTransaction(txid, 'confirmed'); the response
ConfirmReturn ==
  /\ pc = "confirm"
  /\ \E o \in ConfirmOutcomes :
       /\ confirmResult' = o
       /\ IF ConfirmThrows(o)
            THEN Fail("confirmTransaction",
                      TransactionFailed("confirm failed"))
            ELSE Respond(BackendSigned(txid))
  /\ UNCHANGED <<procVars, walletAddress, balance, aggVars, feeVars, planVars,
                 txid, calls>>

\* the next request arrives (requests are served one after the other here,
\* any number of them);
\* every per-request local starts afresh
NextRequest ==
  /\ pc = "done"
  /\ walletAddress' = "absent"
  /\ pc' = "idle"
  /\ balance' = 0
  /\ acct' = FreshAcct
  /\ splBalances' = <<>>
  /\ validSplBalances' = <<>>
  /\ TRANSACTION_FEE' = Unset
  /\ amount' = 0
  /\ idx' = 1
  /\ tokenAccount' = [ok |-> FALSE, amount |-> 0]
  /\ instructions' = <<>>
  /\ built' = FALSE
  /\ feePayer' = "none"
  /\ signatures' = {}
  /\ txid' = "none"
  /\ confirmResult' = "none"
  /\ calls' = <<>>
  /\ response' = NoResponse
  /\ nResponses' = 0
  /\ caught' = "none"
  /\ UNCHANGED <<signer, tokenList, registryWrites>>

Next ==
  \/ LoadTokenList
  \/ Receive
  \/ GetBalanceReturn
  \/ GetTokenAccountsReturn
  \/ \E i \in 1..MaxAccounts : AccountRead(i)
  \/ \E i \in 1..MaxAccounts : MintInfoReturn(i)
  \/ SendMessageReturn
  \/ FeeReturn
  \/ BlockhashReturn
  \/ BuildRead
  \/ SubmitReturn
  \/ ConfirmReturn
  \/ NextRequest

Spec == Init /\ [][Next]_vars

\* the continuation of the handler after the call it awaits: every awaited
\* call is taken to return or fail eventually, and the event loop then runs
\* the continuation
HandlerStep ==
  \/ GetBalanceReturn
  \/ GetTokenAccountsReturn
  \/ \E i \in 1..MaxAccounts : AccountRead(i)
  \/ \E i \in 1..MaxAccounts : MintInfoReturn(i)
  \/ SendMessageReturn
  \/ FeeReturn
  \/ BlockhashReturn
  \/ BuildRead
  \/ SubmitReturn
  \/ ConfirmReturn

FairSpec == Spec /\ WF_vars(HandlerStep)

\* ------------------------------------------------------------ properties
LastCall == calls[Len(calls)]
\* the position of the first call of `op` in the request's calls (0: none)
FirstPos(op) ==
  IF Called(op) THEN CHOOSE i \in 1..Len(calls) :
                       /\ calls[i].op = op
                       /\ \A j \in 1..(i - 1) : calls[j].op # op
                ELSE 0
\* the fee query returned and the balance does not exceed the reserved fee
FeeNotCovered == TRANSACTION_FEE # Unset /\ balance <= TRANSACTION_FEE
\* the plan's two closing instructions are in place
PlanComplete == built /\ pc # "build" /\ Len(instructions) > 0
TokenPositions == {i \in 1..Len(instructions) : instructions[i].type = "token"}
NativePositions == {i \in 1..Len(instructions) : instructions[i].type = "native"}

\* C1: when the native balance is at most the reserved fee (3 x the
\* per-signature fee), the request has ended with the success response
\* carrying transaction null, no txid and the message 'Insufficient SOL balance
\* for transaction'; no transaction was built, no blockhash query was made and
\* sign, submit and confirm were not invoked, with or without a signer.
C1_InsufficientEndsWithoutPlan ==
  FeeNotCovered =>
    /\ pc = "done"
    /\ nResponses = 1
    /\ response.status = 200
    /\ response.success
    /\ response.transaction = "null"
    /\ response.txid = "absent"
    /\ response.message = "Insufficient SOL balance for transaction"
    /\ ~built
    /\ instructions = <<>>
    /\ LastCall.op = "getRecentBlockhash"
    /\ ~Called("getLatestBlockhash")
    /\ ~Called("sign")
    /\ ~Called("sendRawTransaction")
    /\ ~Called("confirmTransaction")
    /\ signatures = {}

\* C1 witness: a process with a signer answered a request whose balance
\* equals the reserved fee (the boundary of <=), with a positive fee.
C1_Witness ==
  /\ FeeNotCovered
  /\ signer
  /\ balance = TRANSACTION_FEE
  /\ TRANSACTION_FEE > 0
  /\ pc = "done"

\* C2 (as stated): in a built plan the native transfer's amount is the balance
\* minus the reserved fee, is never negative and is never the full balance.
C2_AmountNeverFullBalance ==
  \A i \in NativePositions :
    /\ instructions[i].amount = balance - TRANSACTION_FEE
    /\ instructions[i].amount >= 0
    /\ instructions[i].amount # balance

\* C2 (amended): in a built plan the native transfer's amount is the balance
\* minus the reserved fee and is strictly positive; it is below the full
\* balance whenever the reported per-signature fee is positive, and equals the
\* full balance exactly when the ledger reports a per-signature fee of 0.
C2_AmountIsBalanceMinusFee ==
  \A i \in NativePositions :
    /\ TRANSACTION_FEE # Unset
    /\ balance > TRANSACTION_FEE
    /\ instructions[i].amount = balance - TRANSACTION_FEE
    /\ instructions[i].amount > 0
    /\ (TRANSACTION_FEE > 0 => instructions[i].amount < balance)
    /\ (TRANSACTION_FEE = 0 => instructions[i].amount = balance)

\* C2 witness: a plan was built with a positive reserved fee, and its native
\* transfer moves the balance less that fee.
C2_Witness ==
  /\ PlanComplete
  /\ TRANSACTION_FEE > 0
  /\ \E i \in NativePositions :
       instructions[i].amount = balance - TRANSACTION_FEE

\* C3: in every built plan the instructions are zero or more token transfers,
\* then exactly one native transfer, then exactly one memo, which is last; and
\* while the plan is being built it holds token transfers only.
C3_InstructionOrder ==
  LET n == Len(instructions) IN
  /\ PlanComplete =>
       /\ n >= 2
       /\ instructions[n].type = "memo"
       /\ instructions[n - 1].type = "native"
       /\ \A i \in 1..(n - 2) : instructions[i].type = "token"
       /\ n - 2 <= Len(validSplBalances)
  /\ ~PlanComplete => \A i \in 1..n : instructions[i].type = "token"

\* C3 witness: a built plan of two holdings in which one holding's transfer
\* was skipped (its read failed or returned 0) and the other's was added.
C3_Witness ==
  /\ PlanComplete
  /\ Len(validSplBalances) = 2
  /\ Len(instructions) = 3
  /\ instructions[1].type = "token"

\* C4 (as stated): a request whose walletAddress is missing or malformed is
\* answered with status 400 and nothing else happens: no ledger query, no
\* notification push, no transaction build.
C4_BadAddressIs400 ==
  (pc = "done" /\ walletAddress \in {"absent", "malformed"}) =>
    /\ response.status = 400
    /\ calls = <<>>
    /\ ~built

\* the response of a request whose plan was built carries the one result
\* variant of the process's mode, and never both
VariantMatchesMode ==
  (built /\ pc = "done") =>
    /\ nResponses = 1
    /\ ~(response.txid # "absent" /\ response.transaction # "absent")
    /\ ~signer =>
         /\ response.status = 200
         /\ response.success
         /\ response.transaction = "serialized"
         /\ response.txid = "absent"
         /\ ~Called("sign")
         /\ ~Called("sendRawTransaction")
         /\ ~Called("confirmTransaction")
         /\ signatures = {}
    /\ (signer /\ response.success) =>
         /\ response.txid \in Txids
         /\ response.transaction = "absent"

C6_TxidOnlyAfterSignSubmitConfirm ==
  /\ response.txid # "absent" =>
       /\ signer
       /\ response.txid = txid
       /\ 0 < FirstPos("sign")
       /\ FirstPos("sign") < FirstPos("sendRawTransaction")
       /\ FirstPos("sendRawTransaction") < FirstPos("confirmTransaction")
       /\ CountCalls("sendRawTransaction") = 1
       /\ CountCalls("confirmTransaction") = 1
       /\ LastCall = Call("confirmTransaction", response.txid)
       /\ confirmResult \in {"confirmed", "err"}
  /\ Called("confirmTransaction") =>
       /\ txid \in Txids
       /\ 0 < FirstPos("sendRawTransaction")
       /\ FirstPos("sendRawTransaction") < FirstPos("confirmTransaction")
       /\ calls[FirstPos("confirmTransaction")].arg = txid
  /\ pc = "confirm" => response = NoResponse

\* C6 witness: a backend-signed success response for a plan with a token
\* transfer.
C6_Witness ==
  /\ response.txid \in Txids
  /\ response.success
  /\ confirmResult = "confirmed"
  /\ TokenPositions # {}

\* C7 (as stated): with a signer, when signing/serializing, submission or
\* confirmation fails, or the ledger reports the submitted transaction as
\* failed, the request ends with the 500 'Transaction failed' response carrying
\* the error detail, never with a success response carrying a txid.
C7_FailureNeverSucceeds ==
  (/\ pc = "done"
   /\ Called("sign")
   /\ \/ caught \in {"serialize", "sendRawTransaction", "confirmTransaction"}
      \/ confirmResult = "err") =>
    /\ response.status = 500
    /\ response.error = "Transaction failed"
    /\ response.details # "absent"
    /\ response.txid = "absent"

\* the accounts whose first read succeeded with a positive amount, in
\* discovery order
PositiveReads == SelectSeq(acct, LAMBDA r : r.ok /\ r.amount > 0)

\* C8: a failed resolution of any subset of the discovered token accounts
\* never ends the request: until the notification is issued no response is
\* sent and no exception reaches the handler's catch; once every account has
\* settled the notification is issued; the failed accounts are left out and
\* the holdings are those of the other accounts with a positive amount, as if
\* the failed ones had not been discovered.
C8_AccountFailuresIsolated ==
  /\ (Len(acct) > 0 /\ ~Called("sendMessage")) =>
       /\ pc = "aggregate"
       /\ response = NoResponse
       /\ caught = "none"
  /\ (Len(acct) > 0 /\ AllDone(acct)) => Called("sendMessage")
  /\ Called("sendMessage") =>
       /\ AllDone(acct)
       /\ \A i \in 1..Len(acct) : ~acct[i].ok => splBalances[i] = Null
       /\ Len(validSplBalances) = Len(PositiveReads)
       /\ \A k \in 1..Len(validSplBalances) :
            /\ validSplBalances[k].mint = PositiveReads[k].mint
            /\ validSplBalances[k].balance.num = PositiveReads[k].amount

\* C8 witness: the notification was issued for a request in which one
\* account's read failed and another account yielded a holding.
C8_Witness ==
  /\ Called("sendMessage")
  /\ \E i \in 1..Len(acct) : ~acct[i].ok
  /\ Len(validSplBalances) > 0

\* C9: the holdings are exactly the discovered accounts read successfully with
\* amount > 0: an account read with amount 0 yields no holding, every holding
\* has a strictly positive raw amount, and with no discovered account the
\* holdings are empty.
C9_HoldingsArePositiveReads ==
  Called("sendMessage") =>
    /\ Len(splBalances) = Len(acct)
    /\ \A i \in 1..Len(acct) :
         /\ splBalances[i] # Null <=> (acct[i].ok /\ acct[i].amount > 0)
         /\ splBalances[i] # Null =>
              /\ splBalances[i].balance.num = acct[i].amount
              /\ splBalances[i].mint = acct[i].mint
    /\ \A k \in 1..Len(validSplBalances) :
         /\ validSplBalances[k] # Null
         /\ validSplBalances[k].balance.num > 0
    /\ Len(validSplBalances) =
         Cardinality({i \in 1..Len(acct) : splBalances[i] # Null})
    /\ Len(acct) = 0 => validSplBalances = <<>>

\* C9 witness: the notification was issued for a request in which one account
\* was read with amount 0 and another yielded a holding.
C9_Witness ==
  /\ Called("sendMessage")
  /\ \E i \in 1..Len(acct) : acct[i].ok /\ acct[i].amount = 0
  /\ Len(validSplBalances) = 1

FatalQueries ==
  {"getBalance", "getTokenAccountsByOwner", "getRecentBlockhash",
   "getLatestBlockhash"}

\* C10: when the native balance query, the token-accounts query, the fee query
\* or the blockhash query fails, the request has ended with the 500 response
\* carrying 'Failed to process wallet address' and no details; the failed
\* query is the request's last call, and nothing was built, signed or
\* submitted; no success fields are in the response.
C10_FatalQueryFailure ==
  caught \in FatalQueries =>
    /\ pc = "done"
    /\ nResponses = 1
    /\ response.status = 500
    /\ response.error = "Failed to process wallet address"
    /\ response.details = "absent"
    /\ ~response.success
    /\ ~response.snapshot
    /\ response.transaction = "absent"
    /\ response.txid = "absent"
    /\ LastCall.op = caught
    /\ CountCalls(caught) = 1
    /\ instructions = <<>>
    /\ ~built
    /\ ~Called("sign")
    /\ ~Called("sendRawTransaction")
    /\ caught \in {"getBalance", "getTokenAccountsByOwner"} =>
         ~Called("sendMessage")

\* C10 witness: the blockhash query failed after holdings were found.
C10_Witness ==
  /\ caught = "getLatestBlockhash"
  /\ pc = "done"
  /\ Len(validSplBalances) > 0

\* C11: when the notification push fails the request ends with the generic
\* failure response (status 500, 'Failed to process wallet address', no
\* details), the push is the last call made, and no fee query is issued, no
\* transaction is built and nothing is signed or submitted.
C11_NotificationFailureIsFatal ==
  caught = "sendMessage" =>
    /\ pc = "done"
    /\ nResponses = 1
    /\ response.status = 500
    /\ response.success = FALSE
    /\ response.error = "Failed to process wallet address"
    /\ response.details = "absent"
    /\ response.transaction = "absent"
    /\ response.txid = "absent"
    /\ LastCall.op = "sendMessage"
    /\ ~Called("getRecentBlockhash")
    /\ ~Called("getLatestBlockhash")
    /\ ~built
    /\ instructions = <<>>
    /\ signatures = {}
    /\ ~Called("sign")
    /\ ~Called("sendRawTransaction")
C11_Witness ==
  /\ caught = "sendMessage"
  /\ pc = "done"
  /\ Len(validSplBalances) > 0

\* the positions of the results that are holdings, and the k-th of them in
\* the order of discovery
HoldingIndices == {i \in 1..Len(splBalances) : splBalances[i] # Null}
NthHolding(k) ==
  CHOOSE i \in HoldingIndices :
    Cardinality({j \in HoldingIndices : j < i}) = k - 1
\* the result of account i is the holding made from its own read
OwnHolding(i) ==
  /\ splBalances[i] # Null
  /\ splBalances[i].mint = acct[i].mint
  /\ splBalances[i].balance.num = acct[i].amount

\* C12 as stated: the holdings are in the order in which the resolutions
\* complete, so the holding of the resolution that settles last is the last
\* of the holdings.
C12_HoldingsInCompletionOrder ==
  [][\A j \in 1..Len(acct) :
       (/\ pc = "aggregate"
        /\ pc' = "sendMessage"
        /\ acct[j].stage # "done"
        /\ splBalances'[j] # Null)
       => validSplBalances'[Len(validSplBalances')] = splBalances'[j]]_vars

\* C12: the holdings are in the order in which the accounts were discovered,
\* whatever the order in which the resolutions complete: at every moment the
\* holding of a settled account sits at the position of its account, also
\* while an account discovered earlier is still unsettled, and the holdings
\* of the snapshot are the non-null results in the order of their positions.
C12_HoldingsInDiscoveryOrder ==
  /\ Len(splBalances) = Len(acct)
  /\ \A i \in 1..Len(acct) :
       (acct[i].stage = "done" /\ acct[i].ok /\ acct[i].amount > 0)
         => OwnHolding(i)
  /\ Called("sendMessage") =>
       /\ Len(validSplBalances) = Cardinality(HoldingIndices)
       /\ \A k \in 1..Len(validSplBalances) :
            validSplBalances[k] = splBalances[NthHolding(k)]
C12_Witness ==
  /\ pc = "aggregate"
  /\ Len(acct) = 2
  /\ acct[1].stage # "done"
  /\ acct[2].stage = "done"
  /\ OwnHolding(2)
  /\ acct[2].mint = "m2"

\* the request ended before the aggregation was over: 400, or a fatal failure
\* of the address parse, the balance query or the account enumeration
EndedBeforePush ==
  /\ pc = "done"
  /\ \/ response.status = 400
     \/ caught \in {"PublicKey", "getBalance", "getTokenAccountsByOwner"}
AggregationSucceeded ==
  /\ pc \notin {"idle", "getBalance", "getTokenAccounts", "aggregate"}
  /\ ~EndedBeforePush

\* C13: the notification push is issued at most once per request; when it is
\* issued every token-account resolution has settled (all first reads and
\* mint queries precede it in the calls) and it precedes the fee query; a
\* request whose aggregation succeeds issues exactly one push, a request that
\* ends with 400 or whose aggregation fails issues none.
C13_OnePushAfterAggregation ==
  /\ CountCalls("sendMessage") <= 1
  /\ Called("sendMessage") =>
       /\ \A i \in 1..Len(acct) : acct[i].stage = "done"
       /\ \A k \in 1..Len(calls) :
            /\ calls[k].op = "getParsedAccountInfo"
                 => k < FirstPos("sendMessage")
            /\ calls[k].op \in {"getRecentBlockhash", "getLatestBlockhash",
                                "sign", "sendRawTransaction"}
                 => k > FirstPos("sendMessage")
       /\ Cardinality({k \in 1..FirstPos("sendMessage") :
                         calls[k].op = "getAccount"}) = Len(acct)
  /\ Called("getRecentBlockhash") => Called("sendMessage")
  /\ AggregationSucceeded => CountCalls("sendMessage") = 1
  /\ (pc \in {"idle", "getBalance", "getTokenAccounts", "aggregate"}
        \/ EndedBeforePush) => ~Called("sendMessage")
C13_Witness ==
  /\ Called("getRecentBlockhash")
  /\ CountCalls("sendMessage") = 1
  /\ Len(acct) = 2
  /\ Called("getParsedAccountInfo")

\* the token transfers of a sequence of instructions, and a step that is one
\* iteration of the build loop
Tokens(ins) == SelectSeq(ins, LAMBDA x : x.type = "token")
BuildStep == pc = "build" /\ idx' = idx + 1

\* C14: an iteration of the build loop that fails (address derivation or
\* second read) skips only its own holding: the transfers already appended
\* stay, no failure response is sent for it, the loop goes on to the next
\* holding, whose positive read still appends a transfer, and after the last
\* holding the native transfer and the memo are appended and the request
\* reaches signing (with a signer) or the unsigned serialization (without).
C14_BuildFailuresIsolated ==
  [][/\ (BuildStep /\ ~tokenAccount'.ok) =>
          /\ Tokens(instructions') = Tokens(instructions)
          /\ IF idx < Len(validSplBalances)
               THEN /\ pc' = "build"
                    /\ instructions' = instructions
                    /\ response' = response
                    /\ nResponses' = nResponses
                    /\ caught' = caught
               ELSE /\ Len(instructions') = Len(instructions) + 2
                    /\ instructions'[Len(instructions') - 1].type = "native"
                    /\ instructions'[Len(instructions')].type = "memo"
                    /\ caught' \in {"none", "serialize"}
                    /\ IF signer
                         THEN /\ Called("sign")'
                              /\ signatures' = {"signerKey"}
                         ELSE /\ response'.status = 200
                              /\ response'.success
                              /\ response'.transaction = "serialized"
     /\ (BuildStep /\ ~tokenAccount.ok /\ tokenAccount'.ok
            /\ tokenAccount'.amount > 0) =>
          Len(Tokens(instructions')) = Len(Tokens(instructions)) + 1]_vars
C14_Witness ==
  /\ pc = "done"
  /\ response.transaction = "serialized"
  /\ Len(validSplBalances) = 2
  /\ ~tokenAccount.ok
  /\ Len(instructions) = 3
  /\ instructions[1].type = "token"
  /\ instructions[2].type = "native"
  /\ instructions[3].type = "memo"

\* C15: an iteration of the build loop appends a token transfer exactly when
\* its second read succeeded with an amount greater than 0; the transfer is
\* for the holding's mint and carries the amount of the second read, whatever
\* the amount in the snapshot; a second read of 0 appends nothing.
C15_TransferFollowsSecondRead ==
  [][BuildStep =>
       IF tokenAccount'.ok /\ tokenAccount'.amount > 0
         THEN Tokens(instructions') =
                Append(Tokens(instructions),
                       [type |-> "token",
                        source |-> [mint |-> validSplBalances[idx].mint,
                                    owner |-> walletAddress],
                        dest |-> [mint |-> validSplBalances[idx].mint,
                                  owner |-> Recipient],
                        signerKey |-> walletAddress,
                        amount |-> tokenAccount'.amount,
                        data |-> ""])
         ELSE Tokens(instructions') = Tokens(instructions)]_vars
C15_Witness ==
  /\ PlanComplete
  /\ Len(validSplBalances) = 2
  /\ Len(Tokens(instructions)) = 1
  /\ tokenAccount.ok
  /\ tokenAccount.amount = 0
  /\ Tokens(instructions)[1].amount # validSplBalances[1].balance.num
  /\ Tokens(instructions)[1].source.mint = validSplBalances[1].mint

\* the first read of account i returned a positive amount
ReadPositive(i) ==
  acct[i].stage \in {"getMint", "done"} /\ acct[i].ok /\ acct[i].amount > 0

\* C16 as stated: the mint query is used only for a mint without a registry
\* entry. For a positive account whose mint has an entry (whatever its
\* decimals, 0 included) no mint query is issued and the holding's decimals,
\* symbol and name are the entry's; for a mint without an entry the holding
\* is still made, with the symbol 'TOKEN' and the decimals of the chain or
\* the default 9.
C16_RegistryEntryIsUsed ==
  \A i \in 1..Len(acct) :
    ReadPositive(i) =>
      IF acct[i].info # NoInfo
        THEN /\ acct[i].stage = "done"
             /\ splBalances[i] # Null
             /\ splBalances[i].decimals = acct[i].info.decimals
             /\ splBalances[i].symbol = acct[i].info.symbol
             /\ splBalances[i].name = acct[i].info.name
        ELSE acct[i].stage = "done" =>
               /\ splBalances[i] # Null
               /\ splBalances[i].symbol = "TOKEN"
               /\ splBalances[i].name = DefaultName(acct[i].mint)
               /\ splBalances[i].decimals \in
                    {DefaultDecimals} \cup DecimalsValues

\* the mints of the accounts read with a positive amount, and of the holdings
PositiveMints == {acct[i].mint : i \in {j \in 1..Len(acct) : ReadPositive(j)}}
HoldingMints == {validSplBalances[k].mint : k \in 1..Len(validSplBalances)}
\* the registry as a request sees it before the load
RegistryEmpty == registryWrites = 0 /\ tokenList = EmptyList
\* a request that ran while the registry was empty resolved every positive
\* account through the mint query
ResolvedOnChain ==
  /\ \A i \in 1..Len(acct) : ReadPositive(i) => acct[i].info = NoInfo
  /\ CountCalls("getParsedAccountInfo")
       = Cardinality({i \in 1..Len(acct) : ReadPositive(i)})

\* C17: the registry is written at most once after its initial empty value,
\* and only from empty; it never changes afterwards. A request whose
\* aggregation ran while the registry was empty found no entry for any mint,
\* issued one mint query per positive account, did not fail for it, and its
\* holdings are one per positive account with the mints of those accounts:
\* which is what the holdings are with any registry.
C17_RegistryWrittenOnce ==
  [][/\ registryWrites' <= 1
     /\ registryWrites' = 0 => tokenList' = EmptyList
     /\ tokenList' # tokenList =>
          /\ RegistryEmpty
          /\ registryWrites' = 1
     /\ registryWrites = 1 => tokenList' = tokenList
     /\ (RegistryEmpty' /\ Called("sendMessage")') =>
          /\ ResolvedOnChain'
          /\ caught' \notin {"getAccount", "getParsedAccountInfo"}
     /\ Called("sendMessage")' =>
          /\ HoldingMints' = PositiveMints'
          /\ Len(validSplBalances')
               = Cardinality({i \in 1..Len(acct') : ReadPositive(i)'})]_vars
C17_Witness ==
  /\ RegistryEmpty
  /\ pc = "done"
  /\ response.success
  /\ response.snapshot
  /\ HoldingMints = {"m1", "m2"}
  /\ CountCalls("getParsedAccountInfo") = 2

\* C18 as stated: with a signer configured the backend credential is the only
\* signer the plan requires: once the plan is complete and signed with it
\* alone no required signature is missing, and the plan is submitted.
C18_BackendSignerSuffices ==
  (signer /\ PlanComplete) =>
    /\ signatures = {"signerKey"}
    /\ RequiredSigners(feePayer, instructions) \subseteq signatures
    /\ Called("sendRawTransaction")
    /\ caught # "serialize"

\* a request is being handled and has not been answered
InFlight == pc \notin {"idle", "done"}

\* C19: a request gets at most one response on every path: none while it is
\* handled, one once the handler has returned; and if every awaited call
\* eventually returns or fails, a request that is being handled is eventually
\* answered, with exactly one response.
C19_ExactlyOneResponse ==
  /\ [](nResponses <= 1)
  /\ [](InFlight => nResponses = 0 /\ response = NoResponse)
  /\ [](pc = "done" => nResponses = 1 /\ response # NoResponse)
  /\ (InFlight ~> (pc = "done" /\ nResponses = 1))
C19_Witness ==
  /\ pc = "done"
  /\ nResponses = 1
  /\ response.txid # "absent"
  /\ Len(validSplBalances) = 2

\* C20 as stated: a built plan never holds two token transfers with the same
\* source account.
C20_NoDuplicateSource ==
  \A i, j \in TokenPositions :
    i # j => instructions[i].source # instructions[j].source

====
